---- MODULE Spec2Model ----
(***************************************************************************)
(* A model of the equation-balancing game of src/src/App.jsx: the level    *)
(* generator (generateLevel), the React state of App (terms, gameWon,      *)
(* score, solvedCount, canDivide, modal, divisionModal), the win/division  *)
(* status effect and the event handlers.  Every handler is one action; the *)
(* status effect, which React runs after each render in which `terms` or   *)
(* `gameWon` changed, is folded into the action that changed them.         *)
(* App.jsx holds the application twice; the model follows the first copy   *)
(* (lines 1-681), which the second (lines 683-978) abridges.               *)
(***************************************************************************)
EXTENDS Integers, Sequences, FiniteSets, TLC

(***************************************************************************)
(* Bounds of the model.  They restrict the outcomes of Math.random() that  *)
(* the generator is given and the number of events of a run, not the code. *)
(***************************************************************************)
\* the answers drawn are within -MaxAnswer..MaxAnswer
MaxAnswer == 1
\* A is drawn within minA..(minA + MaxAExtra)
MaxAExtra == 0
\* C1 is drawn within -MaxC1..MaxC1
MaxC1 == 1
\* the entries of `options` drawn are those within -(1 + MaxOption)..(1 + MaxOption)
MaxOption == 1
\* startNewGame is taken while solvedCount <= MaxSolved
MaxSolved == 6
\* at most MaxRejections penalised submissions in a run
MaxRejections == 1
\* the same, for the specification of the generator alone (SpecGen)
GenMaxAnswer == 3
GenMaxAExtra == 3
GenMaxC1 == 3
GenMaxOption == 4
GenMaxSolved == 9
\* the same, for the specification of one level with split terms (SpecSplit),
\* which starts with solvedCount = SplitSolved
SplitSolved == 9
SplitMaxAnswer == 0
SplitMaxAExtra == 0
SplitMaxC1 == 1
SplitMaxOption == 1
\* the same, for the specification of the generator at difficulty 1
\* (SpecGenOne); these are the whole ranges of the draws at that difficulty
OneMaxAnswer == 5
OneMaxAExtra == 4
OneMaxC1 == 10
OneMaxOption == 4

VARIABLES
    terms,          \* useState<Term[]>: the live terms, in array order
    gameWon,        \* useState(false)
    score,          \* useState(0)
    solvedCount,    \* useState(0)
    canDivide,      \* useState<{divisor, dividend} | null>
    modal,          \* useState<ModalState>: the merge negotiation
    divisionModal,  \* useState: the division negotiation
    timers,         \* number of pending setTimeout callbacks of rejected merges
    level,          \* history: the draws of generateLevel for this level
    rejections,     \* history: number of penalised submissions so far
    last            \* history: the last event handled and its outcome

vars == <<terms, gameWon, score, solvedCount, canDivide, modal, divisionModal,
          timers, level, rejections, last>>

----------------------------------------------------------------------------
(* Types *)

Sides == {"lhs", "rhs"}

\* `null` for a Term reference (modal.termA, modal.termB)
NoTerm == [id |-> 0, coefficient |-> 0, hasVariable |-> FALSE, side |-> "lhs"]

\* `null` for canDivide
NoDivide == [set |-> FALSE, divisor |-> 0, dividend |-> 0]

ClosedModal == [isOpen |-> FALSE, termA |-> NoTerm, termB |-> NoTerm, error |-> "none"]

ClosedDivisionModal == [isOpen |-> FALSE, divisor |-> 1, dividend |-> 0, error |-> "none"]

----------------------------------------------------------------------------
(* Helpers on sequences of terms *)

Abs(n) == IF n < 0 THEN -n ELSE n

RECURSIVE MaxId(_)
MaxId(ts) == IF ts = <<>> THEN 0
             ELSE LET m == MaxId(Tail(ts)) IN IF Head(ts).id > m THEN Head(ts).id ELSE m

OnSide(ts, s) == SelectSeq(ts, LAMBDA t : t.side = s)

\* generateId(): a random string; modelled as an id larger than every id
\* used so far in the level, hence different from all of them
generateId(ts) == MaxId(ts) + 1

----------------------------------------------------------------------------
(* formatTerm and getEquationString.  A string is the sequence of its      *)
(* characters.                                                              *)

Digits == <<"0", "1", "2", "3", "4", "5", "6", "7", "8", "9">>

\* n.toString() of an integer n >= 0
RECURSIVE toString(_)
toString(n) == IF n < 10 THEN <<Digits[n + 1]>>
               ELSE toString(n \div 10) \o <<Digits[(n % 10) + 1]>>

formatTerm(coefficient, hasVariable, showSign) ==
    LET absCoeff == Abs(coefficient)
        sign == IF coefficient >= 0 THEN "+" ELSE "-"
        variablePart == IF hasVariable THEN <<"x">> ELSE <<>>
        coeffPart == IF hasVariable /\ absCoeff = 1 THEN <<>> ELSE toString(absCoeff)
    IN IF coefficient = 0 THEN <<"0">>
       ELSE (IF showSign THEN <<sign>>
             ELSE IF coefficient < 0 THEN <<"-">> ELSE <<>>)
            \o coeffPart \o variablePart

\* .sort((a, b) => (b.hasVariable ? 1 : 0) - (a.hasVariable ? 1 : 0)): the
\* sort is stable, so the variable terms come first, each kind in its order
sortVariablesFirst(ts) ==
    SelectSeq(ts, LAMBDA t : t.hasVariable) \o SelectSeq(ts, LAMBDA t : ~t.hasVariable)

\* the callback of sideTerms.map in formatSide, for the term at index i >= 1
formatSideTerm(t, i) ==
    LET str == formatTerm(t.coefficient, t.hasVariable, i > 1)
    IN IF i > 1
       THEN <<" ">> \o (IF str # <<>> /\ Head(str) = "-"
                        THEN <<"-", " ">> \o SubSeq(str, 2, Len(str))
                        ELSE <<"+", " ">> \o SubSeq(str, 2, Len(str)))
       ELSE str

\* sideTerms.map(...).join('') from index i on
RECURSIVE joinFrom(_, _)
joinFrom(sideTerms, i) ==
    IF i > Len(sideTerms) THEN <<>>
    ELSE formatSideTerm(sideTerms[i], i) \o joinFrom(sideTerms, i + 1)

formatSide(sideTerms) ==
    IF Len(sideTerms) = 0 THEN <<"0">> ELSE joinFrom(sideTerms, 1)

getEquationString(ts) ==
    LET lhs == sortVariablesFirst(OnSide(ts, "lhs"))
        rhs == sortVariablesFirst(OnSide(ts, "rhs"))
    IN formatSide(lhs) \o <<" ", "=", " ">> \o formatSide(rhs)

----------------------------------------------------------------------------
(* generateLevel *)

\* a variant of difficulty with the remainder in place of the quotient
difficulty_remainder(solved) == 10 + (solved % 3) * 2

\* const difficulty = 1 + Math.floor(solvedCount / 3) * 0.2, in tenths
\* (the floating-point value compares with 1.2 and 1.4 as the tenths do)
difficulty(solved) == 10 + (solved \div 3) * 2

\* const scale = (val) => Math.round(val * difficulty); val * difficulty is
\* never half-way between two integers, so rounding is floor(v + 1/2)
scale(val, d) == (val * d + 5) \div 10

\* const options = [2, 3, 4, 5, -2, -3, -4, -5]
options == <<2, 3, 4, 5, -2, -3, -4, -5>>

minA == 2

maxA(d) == IF minA + 2 >= scale(6, d) THEN minA + 2 ELSE scale(6, d)

\* the outcomes of options[Math.floor(Math.random() * options.length)],
\* those of magnitude at most 1 + maxOption
FinalCoeffs(d, maxOption) ==
    IF d > 12 THEN {options[i] : i \in {j \in 1..Len(options) :
                                         Abs(options[j]) <= 1 + maxOption}}
    ELSE {1}

\* the outcomes of Math.floor(Math.random() * (rangeX * 2 + 1)) - rangeX,
\* those of magnitude at most maxAnswer
Answers(d, maxAnswer) ==
    LET rangeX == scale(5, d)
    IN {a \in -rangeX..rangeX : Abs(a) <= maxAnswer}

\* a variant of ACoeffs whose draws start one below minA
ACoeffs_belowMin(d, maxAExtra) == {a \in (minA - 1)..maxA(d) : a <= minA + maxAExtra}

\* the outcomes of Math.floor(Math.random() * (maxA - minA + 1)) + minA,
\* those that are at most minA + maxAExtra
ACoeffs(d, maxAExtra) == {a \in minA..maxA(d) : a <= minA + maxAExtra}

\* the outcomes of Math.floor(Math.random() * (rangeC * 2 + 1)) - rangeC,
\* those of magnitude at most maxC1
C1Coeffs(d, maxC1) ==
    LET rangeC == scale(10, d)
    IN {c \in -rangeC..rangeC : Abs(c) <= maxC1}

\* the outcomes of the four tests Math.random() > 0.5 of the splitting loop,
\* which runs when difficulty > 1.4: keep[i] is TRUE when raw term i is
\* pushed unsplit
Keeps(d) == IF d > 14 THEN [1..4 -> BOOLEAN] ELSE {[i \in 1..4 |-> TRUE]}

rawTerms(A, B, C1, C2) ==
    << [coeff |-> A,  hasVar |-> TRUE,  side |-> "lhs"],
       [coeff |-> B,  hasVar |-> TRUE,  side |-> "rhs"],
       [coeff |-> C1, hasVar |-> FALSE, side |-> "lhs"],
       [coeff |-> C2, hasVar |-> FALSE, side |-> "rhs"] >>

\* a variant of splitTerm that pushes the half twice, losing 1 of an odd
\* coefficient
splitTerm_equalHalves(t, keep) ==
    IF keep \/ t.coeff = 0 THEN <<t>>
    ELSE LET splitPart == t.coeff \div 2
         IN << [coeff |-> splitPart, hasVar |-> t.hasVar, side |-> t.side],
               [coeff |-> splitPart, hasVar |-> t.hasVar, side |-> t.side] >>

\* one iteration of rawTerms.forEach of the splitting step
splitTerm(t, keep) ==
    IF keep \/ t.coeff = 0 THEN <<t>>
    ELSE LET splitPart == t.coeff \div 2
             remainder == t.coeff - splitPart
         IN << [coeff |-> splitPart, hasVar |-> t.hasVar, side |-> t.side],
               [coeff |-> remainder, hasVar |-> t.hasVar, side |-> t.side] >>

RECURSIVE splitAll(_, _, _)
splitAll(raw, keep, i) ==
    IF i > Len(raw) THEN <<>>
    ELSE splitTerm(raw[i], keep[i]) \o splitAll(raw, keep, i + 1)

\* a variant of toTerms without the test t.coeff !== 0
RECURSIVE toTerms_keepZero(_, _)
toTerms_keepZero(raw, done) ==
    IF raw = <<>> THEN done
    ELSE toTerms_keepZero(Tail(raw),
                          Append(done, [id |-> generateId(done),
                                        coefficient |-> Head(raw).coeff,
                                        hasVariable |-> Head(raw).hasVar,
                                        side |-> Head(raw).side]))

\* "Convert to Term objects": zero coefficients are dropped, ids are fresh
RECURSIVE toTerms(_, _)
toTerms(raw, done) ==
    IF raw = <<>> THEN done
    ELSE IF Head(raw).coeff # 0
         THEN toTerms(Tail(raw),
                      Append(done, [id |-> generateId(done),
                                    coefficient |-> Head(raw).coeff,
                                    hasVariable |-> Head(raw).hasVar,
                                    side |-> Head(raw).side]))
         ELSE toTerms(Tail(raw), done)

\* a variant of generateLevel with B = A + finalCoeff
generateLevel_sumB(d, finalCoeff, ans, A, C1, keep) ==
    LET B == A + finalCoeff
        targetConstantDiff == finalCoeff * ans
        C2 == C1 + targetConstantDiff
        raw == rawTerms(A, B, C1, C2)
        split == IF d > 14 THEN splitAll(raw, keep, 1) ELSE raw
    IN toTerms(split, <<>>)

\* generateLevel(difficulty), given the outcomes of its random draws
generateLevel(d, finalCoeff, ans, A, C1, keep) ==
    LET B == A - finalCoeff
        targetConstantDiff == finalCoeff * ans
        C2 == C1 + targetConstantDiff
        raw == rawTerms(A, B, C1, C2)
        split == IF d > 14 THEN splitAll(raw, keep, 1) ELSE raw
    IN toTerms(split, <<>>)

----------------------------------------------------------------------------
(* The win / division status effect *)

\* a variant of isWin that also takes -x = c for solved
isWin_unitMagnitude(varTerm) == Abs(varTerm.coefficient) = 1

\* if (varTerm.coefficient === 1): the equation reads x = c
isWin(varTerm) == varTerm.coefficient = 1

\* a variant of statusEffect without the early return of a won game: the
\* derivation awards whenever it runs on x = c
statusEffect_noWonGuard(ts, won, cd, sc, solved) ==
    LET same == [gameWon |-> won, canDivide |-> cd, score |-> sc, solvedCount |-> solved]
    IN IF Len(ts) = 2
       THEN LET lhs == OnSide(ts, "lhs")
                rhs == OnSide(ts, "rhs")
            IN IF Len(lhs) = 1 /\ Len(rhs) = 1
               THEN LET t1 == lhs[1]
                        t2 == rhs[1]
                        found == (t1.hasVariable /\ ~t2.hasVariable)
                                 \/ (~t1.hasVariable /\ t2.hasVariable)
                        varTerm == IF t1.hasVariable THEN t1 ELSE t2
                        constTerm == IF t1.hasVariable THEN t2 ELSE t1
                    IN IF found
                       THEN IF isWin(varTerm)
                            THEN [gameWon |-> TRUE, canDivide |-> NoDivide,
                                  score |-> sc + 10, solvedCount |-> solved + 1]
                            ELSE [same EXCEPT !.canDivide =
                                     [set |-> TRUE, divisor |-> varTerm.coefficient,
                                      dividend |-> constTerm.coefficient]]
                       ELSE same
               ELSE same
       ELSE [same EXCEPT !.canDivide = NoDivide]

\* useEffect(..., [terms, gameWon]): the state it leaves, run to its fixpoint
\* (when it sets gameWon it runs again and takes its first branch)
statusEffect(ts, won, cd, sc, solved) ==
    LET same == [gameWon |-> won, canDivide |-> cd, score |-> sc, solvedCount |-> solved]
    IN IF won THEN [same EXCEPT !.canDivide = NoDivide]
       ELSE IF Len(ts) = 2
       THEN LET lhs == OnSide(ts, "lhs")
                rhs == OnSide(ts, "rhs")
            IN IF Len(lhs) = 1 /\ Len(rhs) = 1
               THEN LET t1 == lhs[1]
                        t2 == rhs[1]
                        found == (t1.hasVariable /\ ~t2.hasVariable)
                                 \/ (~t1.hasVariable /\ t2.hasVariable)
                        varTerm == IF t1.hasVariable THEN t1 ELSE t2
                        constTerm == IF t1.hasVariable THEN t2 ELSE t1
                    IN IF found
                       THEN IF isWin(varTerm)
                            THEN [gameWon |-> TRUE, canDivide |-> NoDivide,
                                  score |-> sc + 10, solvedCount |-> solved + 1]
                            ELSE [same EXCEPT !.canDivide =
                                     [set |-> TRUE, divisor |-> varTerm.coefficient,
                                      dividend |-> constTerm.coefficient]]
                       ELSE same
               ELSE same
       ELSE [same EXCEPT !.canDivide = NoDivide]

\* the four variables the effect writes, after `ts` became the live terms
RunEffect(ts, won, cd) ==
    LET r == statusEffect(ts, won, cd, score, solvedCount)
    IN /\ gameWon' = r.gameWon
       /\ canDivide' = r.canDivide
       /\ score' = r.score
       /\ solvedCount' = r.solvedCount

----------------------------------------------------------------------------
(* Construction and reset *)

\* App's initial useState values, then the mount effect setTerms(generateLevel(1))
\* and the status effect on the generated terms
Init ==
    \E ans \in Answers(10, MaxAnswer), A \in ACoeffs(10, MaxAExtra),
       C1 \in C1Coeffs(10, MaxC1) :
        LET ts == generateLevel(10, 1, ans, A, C1, [i \in 1..4 |-> TRUE])
            r == statusEffect(ts, FALSE, NoDivide, 0, 0)
        IN /\ terms = ts
           /\ gameWon = r.gameWon
           /\ score = r.score
           /\ solvedCount = r.solvedCount
           /\ canDivide = r.canDivide
           /\ modal = ClosedModal
           /\ divisionModal = ClosedDivisionModal
           /\ timers = 0
           /\ level = [finalCoeff |-> 1, answer |-> ans, A |-> A, C1 |-> C1]
           /\ rejections = 0
           /\ last = "mount"

\* a full-screen overlay (z-50) of the merge or division dialog covers the
\* cards, the Divide button and the Skip Level button
DialogOpen == modal.isOpen \/ divisionModal.isOpen

\* a variant of newGame without setGameWon(false) and setCanDivide(null)
newGame_keepStatus(maxOption, maxAnswer, maxAExtra, maxC1) ==
    /\ LET d == difficulty(solvedCount)
       IN \E fc \in FinalCoeffs(d, maxOption), ans \in Answers(d, maxAnswer),
             A \in ACoeffs(d, maxAExtra), C1 \in C1Coeffs(d, maxC1),
             keep \in Keeps(d) :
            LET ts == generateLevel(d, fc, ans, A, C1, keep)
            IN /\ terms' = ts
               /\ RunEffect(ts, gameWon, canDivide)
               /\ level' = [finalCoeff |-> fc, answer |-> ans, A |-> A, C1 |-> C1]
    /\ last' = "startNewGame"
    /\ UNCHANGED <<modal, divisionModal, timers, rejections>>

\* the body of startNewGame, for draws bounded by the four given bounds
newGame(maxOption, maxAnswer, maxAExtra, maxC1) ==
    /\ LET d == difficulty(solvedCount)
       IN \E fc \in FinalCoeffs(d, maxOption), ans \in Answers(d, maxAnswer),
             A \in ACoeffs(d, maxAExtra), C1 \in C1Coeffs(d, maxC1),
             keep \in Keeps(d) :
            LET ts == generateLevel(d, fc, ans, A, C1, keep)
            IN /\ terms' = ts
               /\ RunEffect(ts, FALSE, NoDivide)
               /\ level' = [finalCoeff |-> fc, answer |-> ans, A |-> A, C1 |-> C1]
    /\ last' = "startNewGame"
    /\ UNCHANGED <<modal, divisionModal, timers, rejections>>

\* startNewGame: the Skip Level button, or Next Equation of the win dialog
startNewGame ==
    /\ ~DialogOpen
    /\ solvedCount <= MaxSolved
    /\ newGame(MaxOption, MaxAnswer, MaxAExtra, MaxC1)

----------------------------------------------------------------------------
(* User input *)

\* NaN, and a number, as parseInt returns them
NaN == [nan |-> TRUE, value |-> 0]

Num(n) == [nan |-> FALSE, value |-> n]

\* every coefficient and every sum of coefficients of a level lies within
\* -MaxInput..MaxInput
MaxInput ==
    LET v == 2 * (minA + MaxAExtra) + (1 + MaxOption)
        c == 2 * MaxC1 + (1 + MaxOption) * MaxAnswer
    IN IF v > c THEN v ELSE c

\* what the player leaves in an <input type="number">: nothing, an integer
\* numeral such as "-3", or a decimal numeral such as "-3.5" (whole = -3)
Inputs ==
    {[kind |-> "empty", whole |-> 0]}
    \cup {[kind |-> k, whole |-> n] : k \in {"integer", "decimal"},
                                      n \in -MaxInput..MaxInput}

\* parseInt(text, 10): NaN for the empty string, else the integer that the
\* leading sign and digits denote (a fraction part is ignored)
parseInt(inp) == IF inp.kind = "empty" THEN NaN ELSE Num(inp.whole)

----------------------------------------------------------------------------
(* handleDragEnd *)

\* the callback of terms.find without its geometric test: the terms that can
\* be the overlappingTerm of a drop of terms[i] on newSide
mergeCandidates(ts, i, newSide) ==
    {j \in 1..Len(ts) : /\ ts[j].id # ts[i].id
                        /\ ts[j].side = newSide
                        /\ ts[j].hasVariable = ts[i].hasVariable}

\* a variant of crossTerm that makes the coefficient negative instead of
\* negating it
crossTerm_negative(ts, id, newSide) ==
    [k \in 1..Len(ts) |->
        IF ts[k].id = id
        THEN [ts[k] EXCEPT !.side = newSide, !.coefficient = (-1) * Abs(ts[k].coefficient)]
        ELSE ts[k]]

\* setTerms(prev => prev.map(...)) of the side crossing
crossTerm(ts, id, newSide) ==
    [k \in 1..Len(ts) |->
        IF ts[k].id = id
        THEN [ts[k] EXCEPT !.side = newSide, !.coefficient = ts[k].coefficient * (-1)]
        ELSE ts[k]]

\* a variant of mergeModal that keeps the coefficient of a term dropped
\* across the centre line
mergeModal_noFlip(term, newSide, overlappingTerm) ==
    [isOpen |-> TRUE,
     termA |-> [term EXCEPT !.side = newSide],
     termB |-> overlappingTerm,
     error |-> "none"]

\* the modal opened for a drop of `term` on newSide over overlappingTerm
mergeModal(term, newSide, overlappingTerm) ==
    LET didCross == newSide # term.side
        effectiveCoefficient == IF didCross THEN (-1) * term.coefficient
                                ELSE term.coefficient
    IN [isOpen |-> TRUE,
        termA |-> [term EXCEPT !.coefficient = effectiveCoefficient, !.side = newSide],
        termB |-> overlappingTerm,
        error |-> "none"]

\* a variant of handleDragEnd without the first line, if (gameWon) return
handleDragEnd_noWonGuard(i, newSide, ov) ==
    /\ ~DialogOpen
    /\ IF ov # 0
       THEN /\ modal' = mergeModal(terms[i], newSide, terms[ov])
            /\ last' = "dragMerge"
            /\ UNCHANGED <<terms, gameWon, score, solvedCount, canDivide>>
       ELSE IF newSide # terms[i].side
       THEN /\ terms' = crossTerm(terms, terms[i].id, newSide)
            /\ RunEffect(terms', gameWon, canDivide)
            /\ last' = "dragCross"
            /\ UNCHANGED modal
       ELSE /\ last' = "dragNoop"
            /\ UNCHANGED <<terms, gameWon, score, solvedCount, canDivide, modal>>
    /\ UNCHANGED <<divisionModal, timers, level, rejections>>

\* a card is dropped: i is the dragged term, newSide the side of the card's
\* centre, ov the term found overlapping (0: none)
handleDragEnd(i, newSide, ov) ==
    /\ ~DialogOpen
    /\ IF gameWon
       THEN /\ last' = "dragIgnored"
            /\ UNCHANGED <<terms, gameWon, score, solvedCount, canDivide, modal>>
       ELSE IF ov # 0
       THEN /\ modal' = mergeModal(terms[i], newSide, terms[ov])
            /\ last' = "dragMerge"
            /\ UNCHANGED <<terms, gameWon, score, solvedCount, canDivide>>
       ELSE IF newSide # terms[i].side
       THEN /\ terms' = crossTerm(terms, terms[i].id, newSide)
            /\ RunEffect(terms', gameWon, canDivide)
            /\ last' = "dragCross"
            /\ UNCHANGED modal
       ELSE /\ last' = "dragNoop"
            /\ UNCHANGED <<terms, gameWon, score, solvedCount, canDivide, modal>>
    /\ UNCHANGED <<divisionModal, timers, level, rejections>>

----------------------------------------------------------------------------
(* handleMergeSubmit, the merge dialog's Cancel, and the timer *)

\* a variant of mergeTerms without the test isZero: a zero sum of two
\* variable terms stays a variable term
mergeTerms_keepKind(ts, termA, termB, sum) ==
    LET newTerm == [id |-> generateId(ts),
                    coefficient |-> sum,
                    hasVariable |-> termA.hasVariable,
                    side |-> termB.side]
        filtered == SelectSeq(ts, LAMBDA t : t.id # termA.id /\ t.id # termB.id)
    IN Append(filtered, newTerm)

\* a variant of mergeTerms whose filter removes termA only
mergeTerms_keepB(ts, termA, termB, sum) ==
    LET isZero == sum = 0
        newTerm == [id |-> generateId(ts),
                    coefficient |-> sum,
                    hasVariable |-> IF isZero THEN FALSE ELSE termA.hasVariable,
                    side |-> termB.side]
        filtered == SelectSeq(ts, LAMBDA t : t.id # termA.id)
    IN Append(filtered, newTerm)

\* the term list after an accepted merge
mergeTerms(ts, termA, termB, sum) ==
    LET isZero == sum = 0
        newTerm == [id |-> generateId(ts),
                    coefficient |-> sum,
                    hasVariable |-> IF isZero THEN FALSE ELSE termA.hasVariable,
                    side |-> termB.side]
        filtered == SelectSeq(ts, LAMBDA t : t.id # termA.id /\ t.id # termB.id)
    IN Append(filtered, newTerm)

\* "accepted", "invalid" (NaN: no penalty) or "rejected"
mergeVerdict(termA, termB, userSum) ==
    LET sum == termA.coefficient + termB.coefficient
    IN IF userSum.nan THEN "invalid"
       ELSE IF userSum.value = sum THEN "accepted"
       ELSE "rejected"

handleMergeSubmit(inp) ==
    /\ modal.isOpen
    /\ LET sum == modal.termA.coefficient + modal.termB.coefficient
           verdict == mergeVerdict(modal.termA, modal.termB, parseInt(inp))
       IN CASE verdict = "invalid" ->
                 /\ modal' = [modal EXCEPT !.error = "Please enter a valid number"]
                 /\ last' = "mergeInvalid"
                 /\ UNCHANGED <<terms, gameWon, score, solvedCount, canDivide,
                                timers, rejections>>
            [] verdict = "accepted" ->
                 /\ terms' = mergeTerms(terms, modal.termA, modal.termB, sum)
                 /\ modal' = ClosedModal
                 /\ RunEffect(terms', gameWon, canDivide)
                 /\ last' = "mergeAccepted"
                 /\ UNCHANGED <<timers, rejections>>
            [] verdict = "rejected" ->
                 /\ rejections < MaxRejections
                 /\ score' = score - 2
                 /\ modal' = [modal EXCEPT !.error = "Incorrect sum. -2 Points!"]
                 /\ timers' = timers + 1
                 /\ rejections' = rejections + 1
                 /\ last' = "mergeRejected"
                 /\ UNCHANGED <<terms, gameWon, solvedCount, canDivide>>
    /\ UNCHANGED <<divisionModal, level>>

\* a variant of mergeCancel that takes 2 points
mergeCancel_penalty ==
    /\ modal.isOpen
    /\ modal' = ClosedModal
    /\ score' = score - 2
    /\ last' = "mergeCancel"
    /\ UNCHANGED <<terms, gameWon, solvedCount, canDivide, divisionModal,
                   timers, level, rejections>>

\* the Cancel button of the merge dialog
mergeCancel ==
    /\ modal.isOpen
    /\ modal' = ClosedModal
    /\ last' = "mergeCancel"
    /\ UNCHANGED <<terms, gameWon, score, solvedCount, canDivide, divisionModal,
                   timers, level, rejections>>

\* a variant of mergeTimeout that refreshes the terms and leaves the dialog
mergeTimeout_keepOpen ==
    /\ timers > 0
    /\ timers' = timers - 1
    /\ modal' = modal
    /\ terms' = terms
    /\ RunEffect(terms', gameWon, canDivide)
    /\ last' = "mergeTimeout"
    /\ UNCHANGED <<divisionModal, level, rejections>>

\* the setTimeout callback of a rejected merge: closes the merge dialog and
\* sets terms to a copy of itself, which makes the status effect run again
mergeTimeout ==
    /\ timers > 0
    /\ timers' = timers - 1
    /\ modal' = ClosedModal
    /\ terms' = terms
    /\ RunEffect(terms', gameWon, canDivide)
    /\ last' = "mergeTimeout"
    /\ UNCHANGED <<divisionModal, level, rejections>>

----------------------------------------------------------------------------
(* The division dialog *)

\* the Divide button, rendered while canDivide is not null
handleDivisionClick ==
    /\ ~DialogOpen
    /\ ~gameWon
    /\ canDivide.set
    /\ divisionModal' = [isOpen |-> TRUE, divisor |-> canDivide.divisor,
                         dividend |-> canDivide.dividend, error |-> "none"]
    /\ last' = "divisionClick"
    /\ UNCHANGED <<terms, gameWon, score, solvedCount, canDivide, modal,
                   timers, level, rejections>>

\* userResult === divisionModal.dividend / divisionModal.divisor, the quotient
\* being a floating-point number (an infinity or NaN when the divisor is 0)
equalsQuotient(userResult, dividend, divisor) ==
    /\ ~userResult.nan
    /\ divisor # 0
    /\ userResult.value * divisor = dividend

\* userDivisor === divisionModal.divisor
equalsDivisor(userDivisor, divisor) ==
    ~userDivisor.nan /\ userDivisor.value = divisor

\* setTerms(prev => prev.map(...)) of an accepted division
divideTerms(ts, userResult) ==
    [k \in 1..Len(ts) |->
        [ts[k] EXCEPT !.coefficient = IF ts[k].hasVariable THEN 1 ELSE userResult]]

handleDivisionSubmit(divisorInput, resultInput) ==
    /\ divisionModal.isOpen
    /\ LET userDivisor == parseInt(divisorInput)
           userResult == parseInt(resultInput)
           divisorOk == equalsDivisor(userDivisor, divisionModal.divisor)
           resultOk == equalsQuotient(userResult, divisionModal.dividend,
                                      divisionModal.divisor)
       IN IF divisorOk /\ resultOk
          THEN /\ terms' = divideTerms(terms, userResult.value)
               /\ divisionModal' = ClosedDivisionModal
               /\ RunEffect(terms', gameWon, canDivide)
               /\ last' = "divisionAccepted"
               /\ UNCHANGED rejections
          ELSE /\ rejections < MaxRejections
               /\ score' = score - 2
               /\ divisionModal' =
                     [divisionModal EXCEPT !.error =
                         IF ~divisorOk THEN "Incorrect. Check the divisor. (-2 pts)"
                         ELSE "Incorrect. Check the math. (-2 pts)"]
               /\ rejections' = rejections + 1
               /\ last' = "divisionRejected"
               /\ UNCHANGED <<terms, gameWon, solvedCount, canDivide>>
    /\ UNCHANGED <<modal, timers, level>>

\* the Cancel button of the division dialog
divisionCancel ==
    /\ divisionModal.isOpen
    /\ divisionModal' = ClosedDivisionModal
    /\ last' = "divisionCancel"
    /\ UNCHANGED <<terms, gameWon, score, solvedCount, canDivide, modal,
                   timers, level, rejections>>

----------------------------------------------------------------------------
(* The specification *)

DragEnd ==
    \E i \in 1..Len(terms), newSide \in Sides :
        \E ov \in {0} \cup mergeCandidates(terms, i, newSide) :
            handleDragEnd(i, newSide, ov)

MergeSubmit == \E inp \in Inputs : handleMergeSubmit(inp)

DivisionSubmit ==
    \E divisorInput \in Inputs, resultInput \in Inputs :
        handleDivisionSubmit(divisorInput, resultInput)

Next ==
    \/ startNewGame
    \/ DragEnd
    \/ MergeSubmit
    \/ mergeCancel
    \/ mergeTimeout
    \/ handleDivisionClick
    \/ DivisionSubmit
    \/ divisionCancel

Spec == Init /\ [][Next]_vars

----------------------------------------------------------------------------
(* The generator alone: generateLevel applied at any difficulty *)

\* App with solvedCount equations solved and no penalty, as a level is about
\* to be generated
InitGen ==
    /\ solvedCount \in 0..GenMaxSolved
    /\ score = 10 * solvedCount
    /\ terms = <<>>
    /\ gameWon = FALSE
    /\ canDivide = NoDivide
    /\ modal = ClosedModal
    /\ divisionModal = ClosedDivisionModal
    /\ timers = 0
    /\ level = [finalCoeff |-> 1, answer |-> 0, A |-> 0, C1 |-> 0]
    /\ rejections = 0
    /\ last = "construct"

\* startNewGame on the state before the first level
generate ==
    /\ last = "construct"
    /\ newGame(GenMaxOption, GenMaxAnswer, GenMaxAExtra, GenMaxC1)

SpecGen == InitGen /\ [][generate]_vars

\* startNewGame on the state before the first level, while the difficulty is 1
generateAtOne ==
    /\ last = "construct"
    /\ difficulty(solvedCount) = 10
    /\ newGame(OneMaxOption, OneMaxAnswer, OneMaxAExtra, OneMaxC1)

SpecGenOne == InitGen /\ [][generateAtOne]_vars

----------------------------------------------------------------------------
(* One level of difficulty above 1.4, whose terms the generator may split *)

\* App after SplitSolved wins without a penalty and the startNewGame that
\* follows the last of them
InitSplit ==
    LET d == difficulty(SplitSolved)
    IN \E fc \in FinalCoeffs(d, SplitMaxOption), ans \in Answers(d, SplitMaxAnswer),
          A \in ACoeffs(d, SplitMaxAExtra), C1 \in C1Coeffs(d, SplitMaxC1),
          keep \in Keeps(d) :
        LET ts == generateLevel(d, fc, ans, A, C1, keep)
            r == statusEffect(ts, FALSE, NoDivide, 10 * SplitSolved, SplitSolved)
        IN /\ terms = ts
           /\ gameWon = r.gameWon
           /\ score = r.score
           /\ solvedCount = r.solvedCount
           /\ canDivide = r.canDivide
           /\ modal = ClosedModal
           /\ divisionModal = ClosedDivisionModal
           /\ timers = 0
           /\ level = [finalCoeff |-> fc, answer |-> ans, A |-> A, C1 |-> C1]
           /\ rejections = 0
           /\ last = "startNewGame"

\* the events of one level: every handler but startNewGame
NextLevel ==
    \/ DragEnd
    \/ MergeSubmit
    \/ mergeCancel
    \/ mergeTimeout
    \/ handleDivisionClick
    \/ DivisionSubmit
    \/ divisionCancel

SpecSplit == InitSplit /\ [][NextLevel]_vars

----------------------------------------------------------------------------
(* The first level, with the timer: a callback that setTimeout scheduled is *)
(* run by the event loop once its 1500 ms have passed                       *)

SpecTimer == Init /\ [][NextLevel]_vars /\ WF_vars(mergeTimeout)

----------------------------------------------------------------------------
(* The second copy of the application (lines 683-978).  Its generator, its  *)
(* status effect, handleDragEnd and the Divide button are those of the      *)
(* first copy; its two submit handlers and its timer callback differ, and   *)
(* its dialogs have no Cancel button.                                       *)

\* handleMergeSubmit of the second copy: no test isNaN(userSum), so an empty
\* input is a wrong sum
handleMergeSubmit2(inp) ==
    /\ modal.isOpen
    /\ LET sum == modal.termA.coefficient + modal.termB.coefficient
           userSum == parseInt(inp)
       IN IF ~userSum.nan /\ userSum.value = sum
          THEN /\ terms' = mergeTerms(terms, modal.termA, modal.termB, sum)
               /\ modal' = ClosedModal
               /\ RunEffect(terms', gameWon, canDivide)
               /\ last' = "mergeAccepted"
               /\ UNCHANGED <<timers, rejections>>
          ELSE /\ rejections < MaxRejections
               /\ score' = score - 2
               /\ modal' = [modal EXCEPT !.error = "Incorrect sum. -2 Points!"]
               /\ timers' = timers + 1
               /\ rejections' = rejections + 1
               /\ last' = "mergeRejected"
               /\ UNCHANGED <<terms, gameWon, solvedCount, canDivide>>
    /\ UNCHANGED <<divisionModal, level>>

\* the setTimeout callback of the second copy: closes the merge dialog
mergeTimeout2 ==
    /\ timers > 0
    /\ timers' = timers - 1
    /\ modal' = ClosedModal
    /\ last' = "mergeTimeout"
    /\ UNCHANGED <<terms, gameWon, score, solvedCount, canDivide, divisionModal,
                   level, rejections>>

\* handleDivisionSubmit of the second copy: one error text for every failure
handleDivisionSubmit2(divisorInput, resultInput) ==
    /\ divisionModal.isOpen
    /\ LET userDivisor == parseInt(divisorInput)
           userResult == parseInt(resultInput)
           divisorOk == equalsDivisor(userDivisor, divisionModal.divisor)
           resultOk == equalsQuotient(userResult, divisionModal.dividend,
                                      divisionModal.divisor)
       IN IF divisorOk /\ resultOk
          THEN /\ terms' = divideTerms(terms, userResult.value)
               /\ divisionModal' = ClosedDivisionModal
               /\ RunEffect(terms', gameWon, canDivide)
               /\ last' = "divisionAccepted"
               /\ UNCHANGED rejections
          ELSE /\ rejections < MaxRejections
               /\ score' = score - 2
               /\ divisionModal' = [divisionModal EXCEPT !.error = "Incorrect. (-2 pts)"]
               /\ rejections' = rejections + 1
               /\ last' = "divisionRejected"
               /\ UNCHANGED <<terms, gameWon, solvedCount, canDivide>>
    /\ UNCHANGED <<modal, timers, level>>

MergeSubmit2 == \E inp \in Inputs : handleMergeSubmit2(inp)

DivisionSubmit2 ==
    \E divisorInput \in Inputs, resultInput \in Inputs :
        handleDivisionSubmit2(divisorInput, resultInput)

\* the events of one level of the second copy
NextLevel2 ==
    \/ DragEnd
    \/ MergeSubmit2
    \/ mergeTimeout2
    \/ handleDivisionClick
    \/ DivisionSubmit2

SpecSecond == Init /\ [][NextLevel2]_vars

----------------------------------------------------------------------------
(* Vocabulary of the properties *)

\* the status shown: the win dialog, the Divide button, or neither
status == IF gameWon THEN "won"
          ELSE IF canDivide.set THEN "divisionReady"
          ELSE "playing"

RECURSIVE SumCoeff(_)
SumCoeff(ts) == IF ts = <<>> THEN 0 ELSE Head(ts).coefficient + SumCoeff(Tail(ts))

Vars(ts, s) == SelectSeq(ts, LAMBDA t : t.side = s /\ t.hasVariable)

Consts(ts, s) == SelectSeq(ts, LAMBDA t : t.side = s /\ ~t.hasVariable)

\* the equation that the terms spell is satisfied by x
Satisfies(ts, x) ==
    (SumCoeff(Vars(ts, "lhs")) - SumCoeff(Vars(ts, "rhs"))) * x
        = SumCoeff(Consts(ts, "rhs")) - SumCoeff(Consts(ts, "lhs"))

\* exactly two terms, one on each side, one with the variable and one without
TwoTermShape(ts) ==
    /\ Len(ts) = 2
    /\ ts[1].side # ts[2].side
    /\ ts[1].hasVariable # ts[2].hasVariable

TheVar(ts) == IF ts[1].hasVariable THEN ts[1] ELSE ts[2]

TheConst(ts) == IF ts[1].hasVariable THEN ts[2] ELSE ts[1]

WonShape(ts) == TwoTermShape(ts) /\ TheVar(ts).coefficient = 1

DivisionShape(ts) == TwoTermShape(ts) /\ TheVar(ts).coefficient # 1

LevelStart == last \in {"mount", "startNewGame"}

----------------------------------------------------------------------------
(* Properties *)

\* C1: in every state reachable within a level, the live terms form an
\* equation that the answer drawn by the generator satisfies: no cross,
\* merge submission or division submission changes the solution.
C1_SolutionPreserved == Satisfies(terms, level.answer)

\* C2: the status is divisionReady exactly when two terms remain, one on each
\* side, a variable term with a coefficient other than 1 and a constant, and
\* then the recorded divisor and dividend are those two live coefficients; in
\* every other configuration no division-ready record is pending.
C2_DivisionGating ==
    /\ (status = "divisionReady") <=> DivisionShape(terms)
    /\ status = "divisionReady" =>
          /\ canDivide.divisor = TheVar(terms).coefficient
          /\ canDivide.dividend = TheConst(terms).coefficient

\* C3: the status is won exactly when two terms remain, one on each side, a
\* variable term with coefficient 1 and a constant term.
C3_WinDetection == (status = "won") <=> WonShape(terms)

\* C3 witness: an accepted merge has left x = c and the game is won
C3_Witness == last = "mergeAccepted" /\ status = "won" /\ WonShape(terms)

\* the side across the centre line
Other(s) == IF s = "lhs" THEN "rhs" ELSE "lhs"

\* the term lists one legal move away from ts: a cross, an accepted merge of
\* a dragged term with a candidate, or an accepted division of k x = m
LegalMoves(ts) ==
    IF WonShape(ts) THEN {}
    ELSE {crossTerm(ts, ts[i].id, Other(ts[i].side)) : i \in 1..Len(ts)}
         \cup UNION {UNION {{mergeTerms(ts, mergeModal(ts[i], s, ts[j]).termA, ts[j],
                                        mergeModal(ts[i], s, ts[j]).termA.coefficient
                                            + ts[j].coefficient)
                             : j \in mergeCandidates(ts, i, s)}
                            : s \in Sides}
                     : i \in 1..Len(ts)}
         \cup (IF DivisionShape(ts)
               THEN {divideTerms(ts, q) : q \in {r \in -MaxInput..MaxInput :
                        r * TheVar(ts).coefficient = TheConst(ts).coefficient}}
               ELSE {})

RECURSIVE Reachable(_, _)
Reachable(frontier, seen) ==
    IF frontier = {} THEN seen
    ELSE LET next == (UNION {LegalMoves(ts) : ts \in frontier}) \ seen
         IN Reachable(next, seen \cup next)

Solvable(ts, x) ==
    \E r \in Reachable({ts}, {ts}) : WonShape(r) /\ TheConst(r).coefficient = x

\* C4: from every equation generateLevel returns, some finite sequence of
\* crosses, accepted merges and an accepted division reaches the status won
\* with the remaining constant equal to the answer drawn.
C4_Solvable == LevelStart => Solvable(terms, level.answer)

\* C5: the term list generateLevel returns holds at least 2 terms, for every
\* difficulty and every outcome of the random draws.
C5_AtLeastTwoTerms == last = "startNewGame" => Len(terms) >= 2

\* C6: the terms generateLevel returns are balanced at the answer drawn, and
\* splitting and the dropping of zero terms leave the four sums as drawn:
\* A and B = A - finalCoeff for the variable terms of the left and the right
\* side, C1 and C2 = C1 + finalCoeff * answer for the constants.
C6_GeneratorBalance ==
    last = "startNewGame" =>
        /\ Satisfies(terms, level.answer)
        /\ SumCoeff(Vars(terms, "lhs")) = level.A
        /\ SumCoeff(Vars(terms, "rhs")) = level.A - level.finalCoeff
        /\ SumCoeff(Consts(terms, "lhs")) = level.C1
        /\ SumCoeff(Consts(terms, "rhs")) = level.C1 + level.finalCoeff * level.answer

\* C6 witness: a level of difficulty above 1.4 in which terms were split, one
\* of them a negative odd constant
C6_Witness ==
    /\ last = "startNewGame"
    /\ difficulty(solvedCount) > 14
    /\ Len(terms) > 4
    /\ level.C1 < 0 /\ level.C1 % 2 = 1
    /\ Len(Consts(terms, "lhs")) = 2

\* C7 (as claimed): no live term has coefficient 0.
C7_NoZeroTerm == \A i \in 1..Len(terms) : terms[i].coefficient # 0

\* C7 (amended): a live term with coefficient 0 is never a variable term and
\* never a term of a freshly generated level: the zero terms are constants,
\* which an accepted merge of sum 0 creates and which stay in the live list.
C7_ZeroOnlyMergedConstant ==
    \A i \in 1..Len(terms) :
        terms[i].coefficient = 0 => ~terms[i].hasVariable /\ ~LevelStart

\* C7 witness: an accepted merge of sum 0 has appended the constant 0
C7_Witness ==
    /\ last = "mergeAccepted"
    /\ Len(terms) > 0
    /\ terms[Len(terms)].coefficient = 0
    /\ ~terms[Len(terms)].hasVariable

\* C8: every merge or division submission that is not accepted, an empty or
\* non-numeric one included, takes exactly 2 from the score and leaves the
\* live terms, solvedCount and the status as they were.
C8_RejectionPenalty ==
    [][last' \in {"mergeInvalid", "mergeRejected", "divisionRejected"} =>
          /\ score' = score - 2
          /\ terms' = terms
          /\ solvedCount' = solvedCount
          /\ status' = status]_vars

\* the divisor and dividend of the live terms, when they read k x = m
LiveDivision(ts) ==
    [divisor |-> TheVar(ts).coefficient, dividend |-> TheConst(ts).coefficient]

\* C9: the divisor and dividend a division submission is compared against
\* are those of the live terms, which read k x = m with k other than 1, so a
\* submission is accepted only against the live values.
C9_DivisionAgainstLiveTerms ==
    divisionModal.isOpen =>
        /\ DivisionShape(terms)
        /\ divisionModal.divisor = LiveDivision(terms).divisor
        /\ divisionModal.dividend = LiveDivision(terms).dividend

\* C10: after every accepted division the terms are x on one side and the
\* submitted quotient on the other, and the status is won.
C10_DivisionWins ==
    [][last' = "divisionAccepted" =>
          /\ WonShape(terms')
          /\ TheConst(terms').coefficient * divisionModal.divisor = divisionModal.dividend
          /\ status' = "won"]_vars

\* the ids of a list of terms
Ids(ts) == {ts[k].id : k \in 1..Len(ts)}

\* C11: a merge submission for termA (coefficient a, as it arrives on the
\* side of the drop) and termB (coefficient b), of one kind, is accepted
\* exactly when the number submitted is a + b; an accepted one removes both
\* terms from the live list and appends one new term, on termB's side, with
\* coefficient a + b, a constant if a + b = 0 and of the shared kind
\* otherwise; every other term stays as it was, in its order.
C11_MergeCorrectness ==
    [][\A inp \in Inputs :
          handleMergeSubmit(inp) =>
              LET termA == modal.termA
                  termB == modal.termB
                  a == termA.coefficient
                  b == termB.coefficient
                  proposedSum == parseInt(inp)
                  rest == SelectSeq(terms, LAMBDA t : t.id \notin {termA.id, termB.id})
              IN /\ termA.hasVariable = termB.hasVariable
                 /\ {termA.id, termB.id} \subseteq Ids(terms)
                 /\ (last' = "mergeAccepted")
                        <=> (~proposedSum.nan /\ proposedSum.value = a + b)
                 /\ last' = "mergeAccepted" =>
                        /\ Len(terms') = Len(terms) - 1
                        /\ SubSeq(terms', 1, Len(terms') - 1) = rest
                        /\ terms'[Len(terms')].id \notin Ids(terms)
                        /\ terms'[Len(terms')].coefficient = a + b
                        /\ terms'[Len(terms')].side = termB.side
                        /\ terms'[Len(terms')].hasVariable =
                              (IF a + b = 0 THEN FALSE ELSE termA.hasVariable)
                 /\ last' # "mergeAccepted" => terms' = terms]_vars

\* C11 witness: an accepted merge of two variable terms of sum 0, one of
\* them a half of a split term, has left the constant 0 in their place
C11_Witness ==
    /\ last = "mergeAccepted"
    /\ Len(terms) >= 3
    /\ terms[Len(terms)].coefficient = 0
    /\ ~terms[Len(terms)].hasVariable
    /\ Len(Vars(terms, "lhs")) + Len(Vars(terms, "rhs")) = 1
    /\ Len(Consts(terms, "lhs")) + Len(Consts(terms, "rhs")) = 3

\* C12: the callback of a rejected merge submission, when it runs, closes no
\* merge negotiation but the one whose submission was rejected: a negotiation
\* that a later drag opened, in which nothing was submitted yet, stays open
\* with its two terms.
C12_TimerSuperseded ==
    [][(last' = "mergeTimeout" /\ modal.isOpen /\ modal.error = "none")
          => modal' = modal]_vars

\* C13: an equation awards at most once.  A step into the status won (from
\* a status other than won, or by a reset) adds exactly 10 to the score and
\* exactly 1 to solvedCount; every other step, a run of the status derivation
\* after the timer's refresh of the terms included, leaves solvedCount as it
\* was and does not raise the score.
C13_AwardOnce ==
    [][IF gameWon' /\ (~gameWon \/ last' = "startNewGame")
       THEN score' = score + 10 /\ solvedCount' = solvedCount + 1
       ELSE score' <= score /\ solvedCount' = solvedCount]_vars

\* C13 witness: the first equation is won after one rejected submission, and
\* the callback of that rejection has run on the won state
C13_Witness ==
    /\ last = "mergeTimeout"
    /\ gameWon
    /\ solvedCount = 1
    /\ score = 8

\* C14: while the status is won, no drag, merge submission, division
\* submission or timer callback changes the coefficient, side or kind of a
\* live term or adds or removes one, and the status stays won; only
\* startNewGame leaves won.
C14_WonFreezes ==
    [][(status = "won" /\ last' # "startNewGame")
          => (terms' = terms /\ status' = "won")]_vars

\* C14 witness: a card was dragged while the game was won
C14_Witness == last = "dragIgnored" /\ status = "won" /\ WonShape(terms)

\* C15: in a state that is not won, a drop of a term on its own side over no
\* merge candidate changes nothing; a drop on the other side over no merge
\* candidate negates the coefficient of that term and sets its side to the
\* destination, every other term staying as it was; and crossing that term
\* once more, back, gives the terms before the first cross.
C15_CrossIdempotence ==
    [][\A i \in 1..Len(terms), newSide \in Sides :
          (status # "won" /\ handleDragEnd(i, newSide, 0)) =>
              IF newSide = terms[i].side
              THEN UNCHANGED <<terms, gameWon, score, solvedCount, canDivide,
                               modal, divisionModal, timers>>
              ELSE /\ Len(terms') = Len(terms)
                   /\ terms'[i] = [terms[i] EXCEPT !.coefficient = 0 - terms[i].coefficient,
                                                   !.side = newSide]
                   /\ \A k \in 1..Len(terms) : k # i => terms'[k] = terms[k]
                   /\ crossTerm(terms', terms[i].id, terms[i].side) = terms]_vars

\* C15 witness: a variable term of a level of four terms has crossed to the
\* right side, where it stands with a negative coefficient
C15_Witness ==
    /\ last = "dragCross"
    /\ status # "won"
    /\ Len(terms) = 4
    /\ \E k \in 1..4 : /\ terms[k].hasVariable
                        /\ terms[k].side = "rhs"
                        /\ terms[k].coefficient < 0

\* C16: startNewGame replaces the live terms by an equation that
\* generateLevel returns for the difficulty of the current solvedCount (the
\* win just awarded included), keeps score and solvedCount, and leaves the
\* status playing or divisionReady as the new terms alone determine it: the
\* game is not won, and a division-ready record exists exactly when the new
\* terms read k x = m with k other than 1, and then holds k and m.
C16_Reset ==
    [][last' = "startNewGame" =>
          LET d == difficulty(solvedCount)
          IN /\ \E fc \in FinalCoeffs(d, MaxOption), ans \in Answers(d, MaxAnswer),
                   A \in ACoeffs(d, MaxAExtra), C1 \in C1Coeffs(d, MaxC1),
                   keep \in Keeps(d) :
                    /\ terms' = generateLevel(d, fc, ans, A, C1, keep)
                    /\ level' = [finalCoeff |-> fc, answer |-> ans, A |-> A, C1 |-> C1]
             /\ score' = score
             /\ solvedCount' = solvedCount
             /\ status' \in {"playing", "divisionReady"}
             /\ (status' = "divisionReady") <=> DivisionShape(terms')
             /\ status' = "divisionReady" =>
                    /\ canDivide'.divisor = TheVar(terms').coefficient
                    /\ canDivide'.dividend = TheConst(terms').coefficient]_vars

\* C16 witness: after the sixth win the reset has generated, at difficulty
\* 1.4, the equation 2x = m, which is division-ready from the start
C16_Witness ==
    /\ last = "startNewGame"
    /\ solvedCount = 6
    /\ level.finalCoeff = 2
    /\ status = "divisionReady"
    /\ DivisionShape(terms)

\* C17: while the difficulty is at most 1.2 (solvedCount < 6) the level is
\* generated with A - B = 1 and the status never becomes divisionReady,
\* whatever crosses and merges are made.
C17_DivisionGatedByDifficulty ==
    (~gameWon /\ difficulty(solvedCount) <= 12) =>
        /\ level.finalCoeff = 1
        /\ status # "divisionReady"

\* C18: whenever the status is divisionReady, the divisor recorded is not 0
\* and the dividend recorded is the divisor times the answer drawn by the
\* generator: the quotient is that integer, so an integer result that is
\* accepted exists.
C18_IntegerQuotient ==
    status = "divisionReady" =>
        /\ canDivide.divisor # 0
        /\ canDivide.dividend = canDivide.divisor * level.answer

\* C19: a rejected merge submission leaves the negotiation open, with its
\* two terms, and a callback pending; from the drag that opened the
\* negotiation until it is accepted the live terms do not change; the
\* callback, when it runs next, closes the negotiation and leaves the terms,
\* the score, solvedCount and the status as they were; and after every
\* rejection the negotiation is eventually closed.
C19_RejectedMergeDismissed ==
    /\ [][last' = "mergeRejected" =>
              /\ modal'.isOpen
              /\ modal'.termA = modal.termA /\ modal'.termB = modal.termB
              /\ timers' > 0]_vars
    /\ [][(last' = "dragMerge" \/ (modal.isOpen /\ last' # "mergeAccepted"))
              => terms' = terms]_vars
    /\ [][(last = "mergeRejected" /\ last' = "mergeTimeout") =>
              /\ ~modal'.isOpen
              /\ terms' = terms
              /\ score' = score /\ solvedCount' = solvedCount
              /\ status' = status]_vars
    /\ (last = "mergeRejected") ~> (~modal.isOpen)

\* C19 witness: the callback has run right after the rejection and closed
\* the negotiation; the four terms of the level are all there, at a cost of
\* 2 points
C19_Witness ==
    /\ last = "mergeTimeout"
    /\ ~modal.isOpen
    /\ timers = 0
    /\ rejections = 1
    /\ score = -2
    /\ Len(terms) = 4
    /\ \A k \in 1..4 : terms[k].id = k

\* the coefficients, in order, of a list of terms
Coefficients(ts) == [k \in 1..Len(ts) |-> ts[k].coefficient]

\* the list <<c>>, or the empty list when c is 0
NonZero(c) == IF c = 0 THEN <<>> ELSE <<c>>

\* C20 (as claimed): at difficulty 1 generateLevel returns exactly four
\* terms: A x on the left with 2 <= A <= 6, (A - 1) x on the right, the
\* constant C1 on the left with |C1| <= 10 and the constant C1 + x* on the
\* right with |x*| <= 5.
C20_ExactlyFourTerms ==
    (last = "startNewGame" /\ difficulty(solvedCount) = 10) =>
        /\ Len(terms) = 4
        /\ level.finalCoeff = 1
        /\ 2 <= level.A /\ level.A <= 6
        /\ Abs(level.C1) <= 10
        /\ Abs(level.answer) <= 5
        /\ Coefficients(Vars(terms, "lhs")) = <<level.A>>
        /\ Coefficients(Vars(terms, "rhs")) = <<level.A - 1>>
        /\ Coefficients(Consts(terms, "lhs")) = <<level.C1>>
        /\ Coefficients(Consts(terms, "rhs")) = <<level.C1 + level.answer>>

\* C20 (amended): at difficulty 1 generateLevel returns A x on the left with
\* 2 <= A <= 6, (A - 1) x on the right, and those of the constants C1 (left,
\* |C1| <= 10) and C1 + x* (right, |x*| <= 5) that are not 0: between two
\* and four terms.
C20_FourTermsButZeros ==
    (last = "startNewGame" /\ difficulty(solvedCount) = 10) =>
        /\ 2 <= Len(terms) /\ Len(terms) <= 4
        /\ level.finalCoeff = 1
        /\ 2 <= level.A /\ level.A <= 6
        /\ Abs(level.C1) <= 10
        /\ Abs(level.answer) <= 5
        /\ Coefficients(Vars(terms, "lhs")) = <<level.A>>
        /\ Coefficients(Vars(terms, "rhs")) = <<level.A - 1>>
        /\ Coefficients(Consts(terms, "lhs")) = NonZero(level.C1)
        /\ Coefficients(Consts(terms, "rhs")) = NonZero(level.C1 + level.answer)

\* C20 witness: a level of difficulty 1 drawn at the ends of the ranges of A
\* and x*, with C1 = 0: three terms, 6x = 5x - 5
C20_Witness ==
    /\ last = "startNewGame"
    /\ difficulty(solvedCount) = 10
    /\ level.A = 6 /\ level.C1 = 0 /\ level.answer = -5
    /\ Len(terms) = 3

\* C21: a rejected division submission reports the divisor whenever the
\* divisor submitted is not the divisor of the negotiation, the result being
\* right or wrong, and reports the result exactly when the divisor is right
\* and the result is not the quotient; the negotiation stays open with its
\* divisor and dividend, and the terms stay as they were.
C21_DivisionErrorClassification ==
    [][last' = "divisionRejected" =>
       \A divisorInput \in Inputs, resultInput \in Inputs :
          (\/ handleDivisionSubmit(divisorInput, resultInput)
           \/ handleDivisionSubmit2(divisorInput, resultInput)) =>
              LET proposedDivisor == parseInt(divisorInput)
                  proposedResult == parseInt(resultInput)
                  divisorWrong == \/ proposedDivisor.nan
                                  \/ proposedDivisor.value # divisionModal.divisor
                  resultWrong == \/ proposedResult.nan
                                 \/ proposedResult.value * divisionModal.divisor
                                        # divisionModal.dividend
              IN /\ divisorWrong \/ resultWrong
                 /\ divisorWrong <=>
                       divisionModal'.error = "Incorrect. Check the divisor. (-2 pts)"
                 /\ (~divisorWrong /\ resultWrong) <=>
                       divisionModal'.error = "Incorrect. Check the math. (-2 pts)"
                 /\ divisionModal'.isOpen
                 /\ divisionModal'.divisor = divisionModal.divisor
                 /\ divisionModal'.dividend = divisionModal.dividend
                 /\ terms' = terms]_vars

\* C22: no event decreases solvedCount; the difficulty, 1 + floor(solvedCount
\* / 3) * 0.2, is at least 1 and no event decreases it; a reset (skip
\* included) and a submission that is not accepted change neither.
C22_SolvedCountMonotone ==
    [][/\ solvedCount' >= solvedCount
       /\ difficulty(solvedCount') >= difficulty(solvedCount)
       /\ difficulty(solvedCount') >= 10
       /\ \E k \in 0..solvedCount' :
             /\ 3 * k <= solvedCount' /\ solvedCount' < 3 * k + 3
             /\ difficulty(solvedCount') = 10 + 2 * k
       /\ last' \in {"startNewGame", "mergeInvalid", "mergeRejected", "divisionRejected"}
             => solvedCount' = solvedCount]_vars

\* C22 witness: six equations are solved, one submission was rejected on the
\* way, and a level of difficulty 1.4 has been generated
C22_Witness ==
    /\ last = "startNewGame"
    /\ solvedCount = 6
    /\ rejections = 1
    /\ difficulty(solvedCount) = 14
    /\ status = "playing"

\* the magnitude of a term as the claim spells it: x for a unit variable
\* term, the digits of |c| and x for another variable term, the digits of
\* |c| for a constant
Magnitude(t) ==
    IF t.hasVariable
    THEN (IF Abs(t.coefficient) = 1 THEN <<>> ELSE toString(Abs(t.coefficient))) \o <<"x">>
    ELSE toString(Abs(t.coefficient))

\* a side as the claim spells it, from index i on: the first term with a
\* minus sign if it is negative, every other term after ' + ' or ' - '
RECURSIVE RenderFrom(_, _)
RenderFrom(sideTerms, i) ==
    IF i > Len(sideTerms) THEN <<>>
    ELSE LET t == sideTerms[i]
             joiner == IF i = 1 THEN (IF t.coefficient < 0 THEN <<"-">> ELSE <<>>)
                       ELSE IF t.coefficient < 0 THEN <<" ", "-", " ">>
                       ELSE <<" ", "+", " ">>
         IN joiner \o Magnitude(t) \o RenderFrom(sideTerms, i + 1)

RenderSide(sideTerms) == IF sideTerms = <<>> THEN <<"0">> ELSE RenderFrom(sideTerms, 1)

\* C23: for every reachable term list, getEquationString is the left side,
\* ' = ' and the right side; a side without terms is '0'; otherwise it is
\* its variable terms, then its constants, the first with its sign and every
\* other after the joiner ' + ' or ' - ', each followed by the magnitude of
\* the term, which is not empty and is 'x' for a variable term of
\* coefficient 1 or -1.
C23_EquationString ==
    /\ getEquationString(terms) =
          RenderSide(Vars(terms, "lhs") \o Consts(terms, "lhs"))
             \o <<" ", "=", " ">>
             \o RenderSide(Vars(terms, "rhs") \o Consts(terms, "rhs"))
    /\ \A k \in 1..Len(terms) : Magnitude(terms[k]) # <<>>

\* the merge negotiation m is one for live terms of ts: termB is a live
\* term, termA is another live term of the same kind as it would arrive on
\* termB's side, with its coefficient negated exactly when that is not the
\* side it is on
PendingMergeOf(m, ts) ==
    \E i, j \in 1..Len(ts) :
        /\ i # j
        /\ ts[j] = m.termB
        /\ ts[i].id = m.termA.id
        /\ ts[i].id # ts[j].id
        /\ ts[i].hasVariable = ts[j].hasVariable
        /\ m.termA.hasVariable = ts[i].hasVariable
        /\ m.termA.side = ts[j].side
        /\ m.termA.coefficient = IF ts[i].side # ts[j].side
                                 THEN 0 - ts[i].coefficient
                                 ELSE ts[i].coefficient

\* C24: a drop that finds a merge candidate changes no live term and opens
\* a negotiation for the dragged term and the candidate, a different term of
\* the same kind on the destination side; the sum asked for is the dragged
\* coefficient, negated exactly when the drop changed sides, plus the
\* candidate's; while the negotiation is open, and after a cancel, a
\* rejection or the timer callback, the dragged term is in the live list on
\* its original side with its original coefficient: only an accepted merge
\* changes the terms.
C24_MergeCandidateFrame ==
    /\ [](modal.isOpen => PendingMergeOf(modal, terms))
    /\ [][last' = "dragMerge" =>
              /\ terms' = terms
              /\ modal'.isOpen
              /\ PendingMergeOf(modal', terms)]_vars
    /\ [][(modal.isOpen /\ last' # "mergeAccepted") => terms' = terms]_vars
    /\ [][(modal.isOpen /\ last' = "mergeAccepted") =>
              terms'[Len(terms')].coefficient
                  = modal.termA.coefficient + modal.termB.coefficient]_vars

\* C24 witness: a term was dropped across the centre line on a candidate,
\* the sum submitted was rejected, and the term is still on its side with
\* its coefficient
C24_Witness ==
    /\ last = "mergeRejected"
    /\ modal.isOpen
    /\ \E i \in 1..Len(terms) :
          /\ terms[i].id = modal.termA.id
          /\ terms[i].side # modal.termA.side
          /\ terms[i].coefficient = 0 - modal.termA.coefficient
          /\ terms[i].coefficient # 0

\* C25: startNewGame changes neither score nor solvedCount, directly or
\* through the status effect on the new terms: the equation generateLevel
\* returns is never of the shape x = c, at any difficulty and for any
\* outcome of the draws, so the status after a reset is not won.
C25_SkipScoreNeutral ==
    [][last' = "startNewGame" =>
          /\ score' = score
          /\ solvedCount' = solvedCount
          /\ ~WonShape(terms')
          /\ status' # "won"]_vars

\* C25 witness: a level of difficulty above 1.4 that is two terms from the
\* start, k x = m with k even, and the score is the one before the reset
C25_Witness ==
    /\ last = "startNewGame"
    /\ difficulty(solvedCount) > 14
    /\ DivisionShape(terms)
    /\ status = "divisionReady"
    /\ score = 10 * solvedCount

\* C26: the score changes by +10 in a step into the status won and by -2 in
\* a penalised rejected submission, and in no other step (cross, accepted
\* merge or division, opening or cancelling a negotiation, timer callback,
\* reset); so the score is always 10 * solvedCount - 2 * (the number of
\* penalised rejections so far).
C26_ScoreAccounting ==
    /\ [](score = 10 * solvedCount - 2 * rejections)
    /\ [][score' = score
              + (IF gameWon' /\ (~gameWon \/ last' = "startNewGame") THEN 10 ELSE 0)
              - (IF last' \in {"mergeRejected", "divisionRejected"} THEN 2 ELSE 0)]_vars
    /\ [][rejections' = rejections
              + (IF last' \in {"mergeRejected", "divisionRejected"} THEN 1 ELSE 0)]_vars

\* C26 witness: a negative score: before any equation is solved a division
\* submission was rejected
C26_Witness ==
    /\ last = "divisionRejected"
    /\ solvedCount = 0
    /\ rejections = 1
    /\ score < 0

\* C27: within a level the number of live terms never increases: an
\* accepted merge, of sum 0 or not, takes exactly one from it and every
\* other event but a reset keeps it; a level has at most 8 terms and at
\* least one term is left, so at most (initial number - 1) merges are
\* accepted in a level.
C27_TermCountNeverIncreases ==
    /\ [](last # "construct" => (1 <= Len(terms) /\ Len(terms) <= 8))
    /\ [][last' # "startNewGame" =>
              Len(terms') = Len(terms) - (IF last' = "mergeAccepted" THEN 1 ELSE 0)]_vars

\* C27 witness: the last possible merge of a level with split terms was
\* accepted and one term is left
C27_Witness ==
    /\ last = "mergeAccepted"
    /\ difficulty(solvedCount) > 14
    /\ Len(terms) = 1

====
